---- MODULE Spec2Model ----
(***************************************************************************)
(* The unparser of rust-python-parser (src/visitors/printer.rs) over the   *)
(* grammar model of src/ast.rs.                                            *)
(*                                                                         *)
(* Text is a sequence of one-character strings.  A Name is text.  Rust's   *)
(* Option<T> is a sequence of length 0 (None) or 1 (Some).  A tree node is *)
(* a record whose field k names the enum variant; the other fields carry   *)
(* the variant's payload under the names the source uses.                  *)
(***************************************************************************)
EXTENDS Integers, Sequences, FiniteSets, TLC

VARIABLES pc,       \* "idle" before a call, "done" after a call returned, "panicked" after unimplemented!()
          fn,       \* the printer function that was called
          arg,      \* the tree (or item list) it was called with
          indent,   \* the indent it was called with (0 when the function takes none)
          out       \* the String it returned; <<>> while idle or when it panicked

vars == <<pc, fn, arg, indent, out>>

----------------------------------------------------------------------------
(* Bounds of the explored inputs *)

MaxItems == 3       \* longest item list handed to comma_join
MaxNames == 2       \* longest name list of an import
MaxDots == 2        \* largest leading_dots of an ImportFrom
MaxParams == 2      \* longest positional / keyword-only parameter group
MaxElems == 2       \* longest container literal and longest comprehension chunk list
MaxDepth == 2       \* deepest block (in indent units) a format_statement call starts at
MaxStmts == 2       \* longest top-level statement sequence handed to format_module
MaxDecorators == 2  \* longest decorator list handed to format_decorators

----------------------------------------------------------------------------
(* Text helpers *)

NoneOpt == <<>>
Some(x) == <<x>>

\* unimplemented!() unwinds through every caller: no String is produced.
\* The marker is a one-element sequence that is not a character.
Fault == <<"unimplemented!()">>

RECURSIVE Flatten(_)
Flatten(parts) ==
    IF parts = <<>> THEN <<>> ELSE Head(parts) \o Flatten(Tail(parts))

\* assert!(contexts.len() > 0) failing unwinds the same way
AssertFailed == <<"assertion failed: contexts.len() > 0">>

IsPanic(t) == t = Fault \/ t = AssertFailed

\* Evaluating a part may panic; the parts are evaluated in order
Panics(i) == \E j \in DOMAIN i : IsPanic(i[j])

FirstPanic(i) == i[CHOOSE j \in DOMAIN i : IsPanic(i[j]) /\ \A h \in 1..(j - 1) : ~IsPanic(i[h])]

\* a renderer that drops the parts it cannot render and returns the rest
CatSkipping(parts) == Flatten(SelectSeq(parts, LAMBDA t : ~IsPanic(t)))

\* s.push_str(a); s.push_str(b); ... : the first part that panics ends the call
Cat(parts) == IF Panics(parts) THEN FirstPanic(parts) ELSE Flatten(parts)

\* for s2 in i { s.push_str(sep); s.push_str(&s2.to_string()) }
RECURSIVE push_rest(_, _, _)
push_rest(s, sep, rest) ==
    IF rest = <<>> THEN s ELSE push_rest(s \o sep \o Head(rest), sep, Tail(rest))

\* i.next().map(|s| s.to_string()).unwrap_or("".to_string()), then the loop
join(sep, i) == IF i = <<>> THEN <<>> ELSE push_rest(Head(i), sep, Tail(i))

\* comma_join pushing the separator after every item
comma_join_trailing(i) == IF Panics(i) THEN FirstPanic(i) ELSE Flatten([j \in DOMAIN i |-> i[j] \o <<",", " ">>])

comma_join(i) == IF Panics(i) THEN FirstPanic(i) ELSE join(<<",", " ">>, i)

space_join(i) == IF Panics(i) THEN FirstPanic(i) ELSE join(<<" ">>, i)

dot_join(i) == join(<<".">>, i)

push_indent(n, s) == s \o [i \in 1..n |-> " "]

Digit(d) == CASE d = 0 -> "0" [] d = 1 -> "1" [] d = 2 -> "2" [] d = 3 -> "3"
              [] d = 4 -> "4" [] d = 5 -> "5" [] d = 6 -> "6" [] d = 7 -> "7"
              [] d = 8 -> "8" [] d = 9 -> "9"

RECURSIVE NatToString(_)
NatToString(n) ==
    IF n < 10 THEN <<Digit(n)>> ELSE NatToString(n \div 10) \o <<Digit(n % 10)>>

\* i64::to_string
IntToString(n) == IF n < 0 THEN <<"-">> \o NatToString(0 - n) ELSE NatToString(n)

\* <str as Debug>::fmt : quoted, with ", \ and line feed escaped
EscapeDebug(c) ==
    CASE c = "\"" -> <<"\\", "\"">>
      [] c = "\\" -> <<"\\", "\\">>
      [] c = "\n" -> <<"\\", "n">>
      [] OTHER -> <<c>>

StringDebug(s) == <<"\"">> \o Flatten([i \in DOMAIN s |-> EscapeDebug(s[i])]) \o <<"\"">>

\* impl Display for Uop / Bop: the operator's fixed textual spelling
UopSym(op) ==
    CASE op = "Plus" -> <<"+">>
      [] op = "Minus" -> <<"-">>
      [] op = "Invert" -> <<"~">>

BopSym(op) ==
    CASE op = "Add" -> <<"+">>
      [] op = "Sub" -> <<"-">>
      [] op = "Mult" -> <<"*">>

----------------------------------------------------------------------------
(* Expression renderer *)

RECURSIVE format_expr(_)

format_dictitem(si) ==
    IF si.k = "Unique"
    THEN Cat(<<format_expr(si.e1), <<":">>, format_expr(si.e2)>>)
    ELSE Cat(<<<<"*", "*">>, format_expr(si.e)>>)

format_setitem(si) ==
    IF si.k = "Unique"
    THEN format_expr(si.e)
    ELSE Cat(<<<<"*">>, format_expr(si.e)>>)

format_pos_arg(a) ==
    IF a.k = "Normal"
    THEN format_expr(a.e)
    ELSE Cat(<<<<"*">>, format_expr(a.e)>>)

format_kw_arg(a) ==
    IF a.k = "Normal"
    THEN Cat(<<a.n, <<"=">>, format_expr(a.e)>>)
    ELSE Cat(<<<<"*", "*">>, format_expr(a.e)>>)

format_args(args) ==
    Cat(<<comma_join([i \in DOMAIN args.positional_args |-> format_pos_arg(args.positional_args[i])]),
          IF Len(args.positional_args) > 0 /\ Len(args.keyword_args) > 0 THEN <<",", " ">> ELSE <<>>,
          comma_join([i \in DOMAIN args.keyword_args |-> format_kw_arg(args.keyword_args[i])])>>)

\* e.clone().map(|e| format_expr(&e)).unwrap_or_default()
OptExpr(o) == IF o = NoneOpt THEN <<>> ELSE format_expr(o[1])

format_subscript(sub) ==
    CASE sub.k = "Simple" -> format_expr(sub.e)
      [] sub.k = "Double" -> Cat(<<OptExpr(sub.e1), <<":">>, OptExpr(sub.e2)>>)
      [] sub.k = "Triple" -> Cat(<<OptExpr(sub.e1), <<":">>, OptExpr(sub.e2), <<":">>, OptExpr(sub.e3)>>)

format_comp(comp) ==
    IF comp.k = "If"
    THEN Cat(<<<<"i", "f", " ">>, format_expr(comp.cond)>>)
    ELSE Cat(<<IF comp.async THEN <<"a", "s", "y", "n", "c", " ">> ELSE <<>>,
               <<"f", "o", "r", " ">>,
               comma_join([i \in DOMAIN comp.item |-> format_expr(comp.item[i])]),
               <<" ", "i", "n", " ">>,
               format_expr(comp.iterator)>>)

\* The variants the closure f of the Bop arm renders without parentheses
BopBareKinds ==
    {"Ellipsis", "None", "True", "False", "Int", "Complex", "Float", "String", "Bytes",
     "Name", "DictComp", "SetComp", "ListComp", "Generator",
     "DictLiteral", "SetLiteral", "ListLiteral", "TupleLiteral"}

\* the closure f with Call results counted among the bare operands
BopOperandCallBare(e) ==
    IF e.k \in BopBareKinds \cup {"Call"}
    THEN format_expr(e)
    ELSE Cat(<<<<"(">>, format_expr(e), <<")">>>>)

\* the closure f of the Bop arm
BopOperand(e) ==
    IF e.k \in BopBareKinds
    THEN format_expr(e)
    ELSE Cat(<<<<"(">>, format_expr(e), <<")">>>>)

Comps(comp) == space_join([i \in DOMAIN comp |-> format_comp(comp[i])])

format_expr(e) ==
    CASE e.k = "Ellipsis" -> <<".", ".", ".">>
      [] e.k = "None" -> <<"N", "o", "n", "e">>
      [] e.k = "True" -> <<"T", "r", "u", "e">>
      [] e.k = "False" -> <<"F", "a", "l", "s", "e">>
      [] e.k = "Name" -> e.n
      [] e.k = "Int" -> IntToString(e.v)
      [] e.k = "String" -> StringDebug(e.s)
      [] e.k = "DictLiteral" ->
            Cat(<<<<"{">>, comma_join([i \in DOMAIN e.items |-> format_dictitem(e.items[i])]), <<"}">>>>)
      [] e.k = "SetLiteral" ->
            Cat(<<<<"{">>, comma_join([i \in DOMAIN e.items |-> format_setitem(e.items[i])]), <<"}">>>>)
      [] e.k = "ListLiteral" ->
            Cat(<<<<"[">>, comma_join([i \in DOMAIN e.items |-> format_setitem(e.items[i])]), <<"]">>>>)
      [] e.k = "TupleLiteral" ->
            Cat(<<<<"(">>, comma_join([i \in DOMAIN e.items |-> format_setitem(e.items[i])]), <<")">>>>)
      [] e.k = "DictComp" ->
            Cat(<<<<"{">>, format_dictitem(e.item), <<" ">>, Comps(e.comp), <<"}">>>>)
      [] e.k = "SetComp" ->
            Cat(<<<<"{">>, format_setitem(e.item), <<" ">>, Comps(e.comp), <<"}">>>>)
      [] e.k = "ListComp" ->
            Cat(<<<<"[">>, format_setitem(e.item), <<" ">>, Comps(e.comp), <<"]">>>>)
      [] e.k = "Generator" ->
            Cat(<<<<"(">>, format_setitem(e.item), <<" ">>, Comps(e.comp), <<")">>>>)
      [] e.k = "Call" ->
            Cat(<<format_expr(e.e), <<"(">>, format_args(e.args), <<")">>>>)
      [] e.k = "Subscript" ->
            Cat(<<format_expr(e.e), <<"[">>,
                  comma_join([i \in DOMAIN e.sub |-> format_subscript(e.sub[i])]), <<"]">>>>)
      [] e.k = "Attribute" ->
            Cat(<<format_expr(e.e), <<".">>, e.n>>)
      [] e.k = "Uop" ->
            Cat(<<UopSym(e.op), format_expr(e.e)>>)
      [] e.k = "Bop" ->
            Cat(<<BopOperand(e.e1), BopSym(e.op), BopOperand(e.e2)>>)
      [] e.k = "Ternary" ->
            Cat(<<<<"(">>, format_expr(e.e1), <<")", " ", "i", "f", " ", "(">>, format_expr(e.e2),
                  <<")", " ", "e", "l", "s", "e", " ", "(">>, format_expr(e.e3), <<")">>>>)
      [] e.k = "Star" ->
            Cat(<<<<"*">>, format_expr(e.e)>>)
      [] OTHER -> Fault

----------------------------------------------------------------------------
(* Parameter / argument renderer *)

format_typed_param(param) ==
    Cat(<<param.name,
          IF param.typed # NoneOpt THEN Cat(<<<<":">>, format_expr(param.typed[1])>>) ELSE <<>>,
          IF param.value # NoneOpt THEN Cat(<<<<"=">>, format_expr(param.value[1])>>) ELSE <<>>>>)

\* the match on star_args
StarArgsText(star_args) ==
    CASE star_args.k = "No" -> <<>>
      [] star_args.k = "Anonymous" -> <<"*", ",", " ">>
      [] star_args.k = "Named" /\ star_args.typed = NoneOpt -> star_args.name
      [] star_args.k = "Named" /\ star_args.typed # NoneOpt ->
            Cat(<<star_args.name, <<":">>, format_expr(star_args.typed[1])>>)

\* the if let Some((name, typed)) = star_kwargs
StarKwargsText(star_kwargs) ==
    IF star_kwargs = NoneOpt THEN <<>>
    ELSE Cat(<<<<"*", "*">>, star_kwargs[1].name,
               IF star_kwargs[1].typed # NoneOpt
               THEN Cat(<<<<":">>, format_expr(star_kwargs[1].typed[1])>>) ELSE <<>>,
               <<",", " ">>>>)

format_typed_params(param) ==
    Cat(<<comma_join([i \in DOMAIN param.positional_args |-> format_typed_param(param.positional_args[i])]),
          IF Len(param.positional_args) > 0 THEN <<",", " ">> ELSE <<>>,
          StarArgsText(param.star_args),
          comma_join([i \in DOMAIN param.keyword_args |-> format_typed_param(param.keyword_args[i])]),
          IF Len(param.keyword_args) > 0 THEN <<",", " ">> ELSE <<>>,
          StarKwargsText(param.star_kwargs)>>)

----------------------------------------------------------------------------
(* Import renderer *)

RECURSIVE dotted_rest(_, _)
dotted_rest(s, rest) ==
    IF rest = <<>> THEN s ELSE dotted_rest(s \o <<".">> \o Head(rest), Tail(rest))

format_dotted_name(path) ==
    IF path = <<>> THEN <<>> ELSE dotted_rest(Head(path), Tail(path))

\* name, then " as " + as_name when an alias is present
ImportFromEntry(entry) ==
    entry.name \o (IF entry.as_name # NoneOpt THEN <<" ", "a", "s", " ">> \o entry.as_name[1] ELSE <<>>)

ImportEntry(entry) ==
    format_dotted_name(entry.name)
        \o (IF entry.as_name # NoneOpt THEN <<" ", "a", "s", " ">> \o entry.as_name[1] ELSE <<>>)

format_import(imp) ==
    IF imp.k = "ImportFrom"
    THEN <<"f", "r", "o", "m", " ">>
            \o [i \in 1..imp.leading_dots |-> "."]
            \o format_dotted_name(imp.path)
            \o <<" ", "i", "m", "p", "o", "r", "t", " ">>
            \o Flatten([i \in DOMAIN imp.names |-> ImportFromEntry(imp.names[i])])
    ELSE <<"i", "m", "p", "o", "r", "t", " ">>
            \o Flatten([i \in DOMAIN imp.names |-> ImportEntry(imp.names[i])])

----------------------------------------------------------------------------
(* Statement / block renderer *)

Exprs(exprs) == comma_join([i \in DOMAIN exprs |-> format_expr(exprs[i])])

\* one iteration of the loop of format_decorators
DecoratorLine(n, d) ==
    Cat(<<push_indent(n, <<>>), <<"@">>, dot_join(d.name),
          IF d.args # NoneOpt THEN format_args(d.args[1]) ELSE <<>>,
          <<"\n">>>>)

format_decorators(n, decorators) ==
    Cat([i \in DOMAIN decorators |-> DecoratorLine(n, decorators[i])])

\* one iteration of the loop over contexts of the With arm
WithItem(i, c) ==
    Cat(<<IF i = 1 THEN <<>> ELSE <<",", " ">>,
          format_expr(c.ctx),
          IF c.as_what # NoneOpt
          THEN Cat(<<<<" ", "a", "s", " ">>, format_expr(c.as_what[1])>>) ELSE <<>>>>)

RECURSIVE format_statement(_, _), format_compound_statement(_, _), format_funcdef(_, _), format_block(_, _)

format_block(n, stmts) ==
    Cat([i \in DOMAIN stmts |-> format_statement(n, stmts[i])])

\* the optional else block of the If, For and While arms
ElseBlock(n, else_block) ==
    IF else_block # NoneOpt
    THEN Cat(<<push_indent(n, <<>>), <<"e", "l", "s", "e", ":", "\n">>, format_block(n + 4, else_block[1])>>)
    ELSE <<>>

\* the loop body with the elif header pushed without its indent
IfBranchDrift(n, i, cb) ==
    Cat(<<IF i = 1 THEN <<"i", "f", " ">> ELSE <<"e", "l", "i", "f", " ">>,
          format_expr(cb.cond), <<":", "\n">>, format_block(n + 4, cb.block)>>)

\* one iteration of the loop over cond_blocks of the If arm
IfBranch(n, i, cb) ==
    IF i = 1
    THEN Cat(<<<<"i", "f", " ">>, format_expr(cb.cond), <<":", "\n">>, format_block(n + 4, cb.block)>>)
    ELSE Cat(<<push_indent(n, <<>>), <<"e", "l", "i", "f", " ">>, format_expr(cb.cond), <<":", "\n">>,
               format_block(n + 4, cb.block)>>)

\* one iteration of the loop over except_clauses of the Try arm
ExceptClause(n, c) ==
    Cat(<<push_indent(n, <<>>), <<"e", "x", "c", "e", "p", "t", " ">>, format_expr(c.guard),
          IF c.name # NoneOpt THEN <<" ", "a", "s", " ">> \o c.name[1] ELSE <<>>,
          <<":", "\n">>, format_block(n + 4, c.block)>>)

LastExceptText(n, last_except) ==
    IF Len(last_except) > 0
    THEN Cat(<<push_indent(n, <<>>), <<"e", "x", "c", "e", "p", "t", ":", "\n">>,
               format_block(n + 4, last_except)>>)
    ELSE <<>>

\* the else section with its header emitted whether or not the block is empty
TryElseAlways(n, else_block) ==
    Cat(<<push_indent(n, <<>>), <<"e", "l", "s", "e", ":", "\n">>, format_block(n + 4, else_block)>>)

TryElseText(n, else_block) ==
    IF Len(else_block) > 0
    THEN Cat(<<push_indent(n, <<>>), <<"e", "l", "s", "e", ":", "\n">>, format_block(n + 4, else_block)>>)
    ELSE <<>>

FinallyText(n, finally_block) ==
    IF Len(finally_block) > 0
    THEN Cat(<<push_indent(n, <<>>),
               <<"f", "i", "n", "a", "l", "l", "y", "_", "b", "l", "o", "c", "k", ":", "\n">>,
               format_block(n + 4, finally_block)>>)
    ELSE <<>>

format_funcdef(n, funcdef) ==
    Cat(<<<<"\n">>,
          format_decorators(n, funcdef.decorators),
          push_indent(n, <<>>),
          IF funcdef.async THEN <<"a", "s", "y", "n", "c", " ">> ELSE <<>>,
          <<"d", "e", "f", " ">>, funcdef.name, <<"(">>,
          format_typed_params(funcdef.parameters), <<")">>,
          IF funcdef.return_type # NoneOpt
          THEN Cat(<<<<" ", "-", ">", " ">>, format_expr(funcdef.return_type[1])>>) ELSE <<>>,
          <<":", "\n">>,
          format_block(n + 4, funcdef.code),
          <<"\n">>>>)

format_compound_statement(n, stmt) ==
    CASE stmt.k = "If" ->
            Cat(<<Cat([i \in DOMAIN stmt.cond_blocks |-> IfBranch(n, i, stmt.cond_blocks[i])]),
                  ElseBlock(n, stmt.else_block)>>)
      [] stmt.k = "For" ->
            Cat(<<IF stmt.async THEN <<"a", "s", "y", "n", "c", " ">> ELSE <<>>,
                  <<"f", "o", "r", " ">>, Exprs(stmt.item), <<" ", "i", "n", " ">>, Exprs(stmt.iterator),
                  <<":", "\n">>, format_block(n + 4, stmt.for_block),
                  ElseBlock(n, stmt.else_block)>>)
      [] stmt.k = "While" ->
            Cat(<<<<"w", "h", "i", "l", "e", " ">>, format_expr(stmt.cond), <<":", "\n">>,
                  format_block(n + 4, stmt.block),
                  ElseBlock(n, stmt.else_block)>>)
      [] stmt.k = "Try" ->
            Cat(<<<<"t", "r", "y", ":", "\n">>, format_block(n + 4, stmt.try_block),
                  Cat([i \in DOMAIN stmt.except_clauses |-> ExceptClause(n, stmt.except_clauses[i])]),
                  LastExceptText(n, stmt.last_except),
                  TryElseText(n, stmt.else_block),
                  FinallyText(n, stmt.finally_block)>>)
      [] stmt.k = "With" ->
            Cat(<<<<"w", "i", "t", "h", " ">>,
                  IF Len(stmt.contexts) > 0 THEN <<>> ELSE AssertFailed,
                  Cat([i \in DOMAIN stmt.contexts |-> WithItem(i, stmt.contexts[i])]),
                  <<":", "\n">>, format_block(n + 4, stmt.block)>>)
      [] stmt.k = "Funcdef" -> format_funcdef(n, stmt.funcdef)
      [] stmt.k = "Classdef" -> Fault

\* the match of format_statement: what is pushed after the indent
StatementText(n, stmt) ==
    CASE stmt.k = "Pass" -> <<"p", "a", "s", "s", "\n">>
      [] stmt.k = "Del" -> Cat(<<<<"d", "e", "l", " ">>, comma_join(stmt.names), <<"\n">>>>)
      [] stmt.k = "Break" -> <<"b", "r", "e", "a", "k", "\n">>
      [] stmt.k = "Continue" -> <<"c", "o", "n", "t", "i", "n", "u", "e", "\n">>
      [] stmt.k = "Return" -> Cat(<<<<"r", "e", "t", "u", "r", "n", " ">>, Exprs(stmt.exprs), <<"\n">>>>)
      [] stmt.k = "RaiseExcFrom" ->
            Cat(<<<<"r", "a", "i", "s", "e", " ">>, format_expr(stmt.exc),
                  <<" ", "f", "r", "o", "m", " ">>, format_expr(stmt.from_exc), <<"\n">>>>)
      [] stmt.k = "RaiseExc" -> Cat(<<<<"r", "a", "i", "s", "e", " ">>, format_expr(stmt.exc), <<"\n">>>>)
      [] stmt.k = "Raise" -> <<"r", "a", "i", "s", "e", "\n">>
      [] stmt.k = "Global" -> Cat(<<<<"g", "l", "o", "b", "a", "l", " ">>, comma_join(stmt.names), <<"\n">>>>)
      [] stmt.k = "Nonlocal" ->
            Cat(<<<<"n", "o", "n", "l", "o", "c", "a", "l", " ">>, comma_join(stmt.names), <<"\n">>>>)
      [] stmt.k = "Assert" ->
            Cat(<<<<"a", "s", "s", "e", "r", "t", " ">>, format_expr(stmt.expr),
                  IF stmt.msg # NoneOpt THEN Cat(<<<<",", " ">>, format_expr(stmt.msg[1])>>) ELSE <<>>,
                  <<"\n">>>>)
      [] stmt.k = "Import" -> Cat(<<format_import(stmt.imp), <<"\n">>>>)
      [] stmt.k = "Expressions" -> Cat(<<Exprs(stmt.exprs), <<"\n">>>>)
      [] stmt.k = "Assignment" ->
            Cat(<<Exprs(stmt.lhs),
                  Cat([i \in DOMAIN stmt.rhs |-> Cat(<<<<" ", "=", " ">>, Exprs(stmt.rhs[i])>>)]),
                  <<"\n">>>>)
      [] stmt.k = "Compound" -> format_compound_statement(n, stmt.stmt)
      [] OTHER -> Fault

format_statement(n, stmt) == Cat(<<push_indent(n, <<>>), StatementText(n, stmt)>>)

format_module(stmts) == Cat([i \in DOMAIN stmts |-> format_statement(0, stmts[i])])

----------------------------------------------------------------------------
(* Tree constructors (src/ast.rs) *)

Lit(kind) == [k |-> kind]
Name(n) == [k |-> "Name", n |-> n]
IntLit(v) == [k |-> "Int", v |-> v]
Str(t) == [k |-> "String", s |-> t]
Unique(e) == [k |-> "Unique", e |-> e]
StarItem(e) == [k |-> "Star", e |-> e]
DictUnique(e1, e2) == [k |-> "Unique", e1 |-> e1, e2 |-> e2]
Container(kind, items) == [k |-> kind, items |-> items]
Comprehension(kind, item, comp) == [k |-> kind, item |-> item, comp |-> comp]
CompIf(cond) == [k |-> "If", cond |-> cond]
CompFor(async, item, iterator) == [k |-> "For", async |-> async, item |-> item, iterator |-> iterator]
Arglist(pos, kw) == [positional_args |-> pos, keyword_args |-> kw]
Normal(e) == [k |-> "Normal", e |-> e]
KwNormal(n, e) == [k |-> "Normal", n |-> n, e |-> e]
Call(e, args) == [k |-> "Call", e |-> e, args |-> args]
SubscriptOf(e, sub) == [k |-> "Subscript", e |-> e, sub |-> sub]
Simple(e) == [k |-> "Simple", e |-> e]
Double(e1, e2) == [k |-> "Double", e1 |-> e1, e2 |-> e2]
Triple(e1, e2, e3) == [k |-> "Triple", e1 |-> e1, e2 |-> e2, e3 |-> e3]
Attribute(e, n) == [k |-> "Attribute", e |-> e, n |-> n]
Uop(op, e) == [k |-> "Uop", op |-> op, e |-> e]
Bop(op, e1, e2) == [k |-> "Bop", op |-> op, e1 |-> e1, e2 |-> e2]
Ternary(e1, e2, e3) == [k |-> "Ternary", e1 |-> e1, e2 |-> e2, e3 |-> e3]
StarExpr(e) == [k |-> "Star", e |-> e]
Yield(exprs) == [k |-> "Yield", exprs |-> exprs]
YieldFrom(e) == [k |-> "YieldFrom", e |-> e]
Lambdef(e) == [k |-> "Lambdef", args |-> <<>>, e |-> e]

TypedParam(name, typed, value) == [name |-> name, typed |-> typed, value |-> value]
StarNamed(name, typed) == [k |-> "Named", name |-> name, typed |-> typed]
TypedArgsList(pos, star, kw, kwargs) ==
    [positional_args |-> pos, star_args |-> star, keyword_args |-> kw, star_kwargs |-> kwargs]
NoParams == TypedArgsList(<<>>, Lit("No"), <<>>, NoneOpt)
Decorator(name, args) == [name |-> name, args |-> args]

ImportFrom(dots, path, names) == [k |-> "ImportFrom", leading_dots |-> dots, path |-> path, names |-> names]
ImportPlain(names) == [k |-> "Import", names |-> names]
Entry(name, as_name) == [name |-> name, as_name |-> as_name]

Names(kind, names) == [k |-> kind, names |-> names]
ExprList(kind, exprs) == [k |-> kind, exprs |-> exprs]
RaiseExcFrom(exc, from_exc) == [k |-> "RaiseExcFrom", exc |-> exc, from_exc |-> from_exc]
RaiseExc(exc) == [k |-> "RaiseExc", exc |-> exc]
AssertStmt(expr, msg) == [k |-> "Assert", expr |-> expr, msg |-> msg]
ImportStmt(imp) == [k |-> "Import", imp |-> imp]
Assignment(lhs, rhs) == [k |-> "Assignment", lhs |-> lhs, rhs |-> rhs]
TypedAssignment(lhs, typed, rhs) == [k |-> "TypedAssignment", lhs |-> lhs, typed |-> typed, rhs |-> rhs]
AugmentedAssignment(lhs, op, rhs) == [k |-> "AugmentedAssignment", lhs |-> lhs, op |-> op, rhs |-> rhs]
Compound(stmt) == [k |-> "Compound", stmt |-> stmt]

CondBlock(cond, block) == [cond |-> cond, block |-> block]
If(cond_blocks, else_block) == [k |-> "If", cond_blocks |-> cond_blocks, else_block |-> else_block]
For(async, item, iterator, for_block, else_block) ==
    [k |-> "For", async |-> async, item |-> item, iterator |-> iterator,
     for_block |-> for_block, else_block |-> else_block]
While(cond, block, else_block) == [k |-> "While", cond |-> cond, block |-> block, else_block |-> else_block]
Except(guard, name, block) == [guard |-> guard, name |-> name, block |-> block]
Try(try_block, except_clauses, last_except, else_block, finally_block) ==
    [k |-> "Try", try_block |-> try_block, except_clauses |-> except_clauses,
     last_except |-> last_except, else_block |-> else_block, finally_block |-> finally_block]
Context(ctx, as_what) == [ctx |-> ctx, as_what |-> as_what]
With(contexts, block) == [k |-> "With", contexts |-> contexts, block |-> block]
Funcdef(async, decorators, name, parameters, return_type, code) ==
    [k |-> "Funcdef",
     funcdef |-> [async |-> async, decorators |-> decorators, name |-> name,
                  parameters |-> parameters, return_type |-> return_type, code |-> code]]
Classdef(name, code) ==
    [k |-> "Classdef", classdef |-> [decorators |-> <<>>, name |-> name,
                                     parameters |-> Arglist(<<>>, <<>>), code |-> code]]

----------------------------------------------------------------------------
(* The trees and item lists the calls are explored on *)

SeqsUpTo(S, n) == UNION {[1..m -> S] : m \in 0..n}

nameA == Name(<<"a">>)
nameB == Name(<<"b">>)
nameC == Name(<<"c">>)
one == IntLit(1)

\* comma_join: rendered items
JoinItems == {<<"a">>, <<"b", "c">>, <<"1">>}
JoinInputs == SeqsUpTo(JoinItems, MaxItems)

\* format_import
FromEntries == {Entry(<<"x">>, NoneOpt), Entry(<<"y">>, Some(<<"z">>))}
PlainEntries == {Entry(<<<<"o", "s">>>>, NoneOpt), Entry(<<<<"o", "s">>, <<"p">>>>, Some(<<"q">>))}
Paths == {<<>>, <<<<"p", "k", "g">>>>, <<<<"m">>, <<"n">>>>}
Imports ==
    {ImportFrom(d, p, n) : d \in 0..MaxDots, p \in Paths, n \in SeqsUpTo(FromEntries, MaxNames)}
        \cup {ImportPlain(n) : n \in SeqsUpTo(PlainEntries, MaxNames)}

\* format_typed_params
PosParams == {TypedParam(<<"p">>, NoneOpt, NoneOpt), TypedParam(<<"q">>, Some(Name(<<"T">>)), Some(one))}
KwParams == {TypedParam(<<"k">>, NoneOpt, NoneOpt), TypedParam(<<"l">>, NoneOpt, Some(Lit("None")))}
StarArgs == {Lit("No"), Lit("Anonymous"), StarNamed(<<"r">>, NoneOpt), StarNamed(<<"r">>, Some(Name(<<"T">>)))}
StarKwargs == {NoneOpt, Some([name |-> <<"w">>, typed |-> NoneOpt]),
               Some([name |-> <<"w">>, typed |-> Some(Name(<<"T">>))])}
ParamLists ==
    {TypedArgsList(p, s, k, w) : p \in SeqsUpTo(PosParams, MaxParams), s \in StarArgs,
                                 k \in SeqsUpTo(KwParams, MaxParams), w \in StarKwargs}

\* format_expr: atom-class trees
Literals ==
    {Lit("Ellipsis"), Lit("None"), Lit("True"), Lit("False"), nameA, nameB, one, IntLit(12), IntLit(0 - 3),
     Str(<<>>), Str(<<"a">>), Str(<<"\"", "\\">>), Str(<<"a", "\n">>)}
ItemExprs == {nameA, one, Container("TupleLiteral", <<Unique(nameA)>>)}
SetItems == {Unique(e) : e \in ItemExprs} \cup {StarItem(nameA)}
DictItems == {DictUnique(nameA, one), DictUnique(one, Container("ListLiteral", <<>>)), StarItem(nameA)}
Chunks == {CompIf(nameA), CompFor(FALSE, <<nameA>>, nameB), CompFor(TRUE, <<nameA, nameB>>, Container("ListLiteral", <<Unique(nameB)>>))}
Containers ==
    {Container(kind, items) : kind \in {"SetLiteral", "ListLiteral", "TupleLiteral"},
                              items \in SeqsUpTo(SetItems, MaxElems)}
        \cup {Container("DictLiteral", items) : items \in SeqsUpTo(DictItems, MaxElems)}
Comprehensions ==
    {Comprehension(kind, item, comp) : kind \in {"SetComp", "ListComp", "Generator"},
                                       item \in {Unique(nameA), StarItem(nameB)},
                                       comp \in SeqsUpTo(Chunks, MaxElems) \ {<<>>}}
        \cup {Comprehension("DictComp", item, comp) : item \in {DictUnique(nameA, one), StarItem(nameB)},
                                                      comp \in SeqsUpTo(Chunks, MaxElems) \ {<<>>}}
AtomExprs == Literals \cup Containers \cup Comprehensions

\* format_expr: variants with no rendering arm
Unsupported ==
    {[k |-> "Complex", real |-> 0, imaginary |-> 1], [k |-> "Float", v |-> 1], [k |-> "Bytes", v |-> <<>>],
     Yield(<<nameA>>), YieldFrom(nameA), Lambdef(nameA)}

\* format_expr: operands of every shape
Trailers ==
    {Call(nameA, Arglist(<<>>, <<>>)),
     Call(nameA, Arglist(<<Normal(one), StarItem(nameB)>>, <<KwNormal(<<"k">>, one), StarItem(nameC)>>)),
     Call(Attribute(nameA, <<"f">>), Arglist(<<Normal(nameB)>>, <<>>)),
     Attribute(nameA, <<"f">>),
     SubscriptOf(nameA, <<Simple(one)>>),
     SubscriptOf(nameA, <<Double(Some(one), NoneOpt), Triple(NoneOpt, Some(nameB), Some(one))>>)}
Operators ==
    {Uop("Minus", nameA), Uop("Invert", Uop("Minus", one)), Uop("Minus", Bop("Add", nameA, nameB)),
     Bop("Mult", nameB, nameC), Bop("Add", Bop("Sub", nameA, nameB), Uop("Plus", nameC)),
     Bop("Mult", Container("ListLiteral", <<Unique(nameA)>>), Bop("Add", nameB, Bop("Mult", nameA, nameC))),
     Ternary(nameA, nameB, nameC), Ternary(Bop("Add", nameA, nameB), Lit("True"), Ternary(nameA, nameB, nameC)),
     StarExpr(nameA)}
Operands ==
    {Lit("None"), nameA, one, Str(<<"a">>),
     Container("ListLiteral", <<Unique(nameA)>>), Container("TupleLiteral", <<>>),
     Container("DictLiteral", <<DictUnique(nameA, one)>>), Container("SetLiteral", <<StarItem(nameA)>>),
     Comprehension("ListComp", Unique(nameA), <<CompFor(FALSE, <<nameA>>, nameB)>>),
     Comprehension("Generator", Unique(nameA), <<CompFor(FALSE, <<nameA>>, nameB), CompIf(nameA)>>),
     Comprehension("SetComp", Unique(nameA), <<CompFor(FALSE, <<nameA>>, nameB)>>),
     Comprehension("DictComp", DictUnique(nameA, one), <<CompFor(FALSE, <<nameA>>, nameB)>>)}
        \cup Trailers \cup Operators \cup {Lambdef(nameA), Yield(<<nameA>>)}
SmallOperands == {nameA, one, Bop("Mult", nameB, nameC), Uop("Minus", nameA), Lambdef(nameA)}
OperatorExprs ==
    {Bop(op, e1, e2) : op \in {"Add", "Mult"}, e1 \in Operands, e2 \in Operands}
        \cup {Uop(op, e) : op \in {"Plus", "Minus", "Invert"}, e \in Operands}
        \cup {Ternary(e1, e2, e3) : e1 \in SmallOperands, e2 \in SmallOperands, e3 \in SmallOperands}
Exprs0 == AtomExprs \cup Unsupported \cup Trailers \cup Operators \cup OperatorExprs

\* format_statement: simple statements
T == Name(<<"T">>)
SupportedSimple ==
    {Lit("Pass"), Lit("Break"), Lit("Continue"), Lit("Raise"),
     Names("Del", <<<<"x">>>>), Names("Del", <<<<"x">>, <<"y">>>>),
     Names("Global", <<<<"x">>, <<"y">>>>), Names("Nonlocal", <<<<"x">>>>),
     ExprList("Return", <<>>), ExprList("Return", <<nameA>>), ExprList("Return", <<IntLit(1), IntLit(2)>>),
     RaiseExcFrom(nameA, Call(nameB, Arglist(<<>>, <<>>))), RaiseExc(nameA),
     AssertStmt(nameA, NoneOpt), AssertStmt(Bop("Add", nameA, nameB), Some(Str(<<"a", "\n">>))),
     ImportStmt(ImportFrom(2, <<<<"p", "k", "g">>>>, <<Entry(<<"x">>, NoneOpt)>>)),
     ImportStmt(ImportPlain(<<Entry(<<<<"o", "s">>, <<"p">>>>, Some(<<"q">>))>>)),
     ExprList("Expressions", <<nameA>>),
     ExprList("Expressions", <<Call(nameA, Arglist(<<>>, <<>>)), Ternary(nameA, nameB, nameC)>>),
     Assignment(<<nameA>>, <<<<one>>>>),
     Assignment(<<nameA, nameB>>, <<<<nameC>>, <<one, Container("TupleLiteral", <<>>)>>>>)}
UnimplementedSimple ==
    {TypedAssignment(<<nameA>>, T, <<one>>), TypedAssignment(<<nameA>>, T, <<>>),
     AugmentedAssignment(<<nameA>>, "Add", <<one>>),
     AugmentedAssignment(<<nameA, nameB>>, "Mult", <<nameC, one>>)}
UnsupportedInside ==
    {ExprList("Return", <<nameA, Lambdef(nameA)>>), RaiseExc(YieldFrom(nameA)),
     Assignment(<<nameA>>, <<<<Bop("Add", one, [k |-> "Float", v |-> 1])>>>>)}

\* format_statement: compound statements
B1 == <<Lit("Pass")>>
B2 == <<ExprList("Return", <<IntLit(1), IntLit(2)>>), Lit("Break")>>
Decorated ==
    Funcdef(TRUE,
            <<Decorator(<<<<"d">>>>, NoneOpt),
              Decorator(<<<<"m">>, <<"d">>>>, Some(Arglist(<<Normal(one)>>, <<>>)))>>,
            <<"g">>, TypedArgsList(<<TypedParam(<<"p">>, NoneOpt, NoneOpt)>>, Lit("No"), <<>>, NoneOpt),
            Some(T), B2)
PlainDef == Funcdef(FALSE, <<>>, <<"f">>, NoParams, NoneOpt, B1)
FullTry ==
    Try(B1, <<Except(nameA, Some(<<"e">>), B1)>>, B1, B2, B1)
Nested ==
    If(<<CondBlock(nameA, <<Compound(While(nameB, <<Lit("Pass"), Compound(Decorated)>>, Some(B1)))>>),
         CondBlock(nameB, <<Compound(FullTry)>>)>>,
       Some(<<Compound(With(<<Context(nameA, NoneOpt)>>, <<Compound(PlainDef), Lit("Pass")>>))>>))
DefInDef ==
    Funcdef(FALSE, <<Decorator(<<<<"d">>>>, NoneOpt)>>, <<"f">>, NoParams, NoneOpt,
            <<Compound(PlainDef), Compound(For(FALSE, <<nameA>>, <<nameB>>, <<Compound(Decorated)>>, NoneOpt))>>)
SupportedCompound ==
    {If(<<CondBlock(nameA, B1)>>, NoneOpt),
     If(<<CondBlock(nameA, B1), CondBlock(nameB, B2), CondBlock(nameC, B1)>>, Some(B1)),
     For(FALSE, <<nameA>>, <<nameB>>, B1, NoneOpt),
     For(TRUE, <<nameA, nameB>>, <<nameC, one>>, B2, Some(B1)),
     While(nameA, B1, NoneOpt), While(nameA, B2, Some(B1)),
     With(<<Context(nameA, NoneOpt)>>, B1),
     With(<<Context(nameA, Some(nameB)), Context(nameC, NoneOpt)>>, B2),
     PlainDef, Decorated, FullTry, Nested, DefInDef}
UnsupportedCompound ==
    {Classdef(<<"C">>, B1),
     If(<<CondBlock(nameA, <<Lit("Pass"), Compound(Classdef(<<"C">>, B1))>>)>>, NoneOpt),
     While(nameA, <<Lit("Pass")>>, Some(<<Lit("Break"), ExprList("Return", <<Yield(<<nameA>>)>>)>>)),
     Funcdef(FALSE, <<>>, <<"f">>, NoParams, Some(Lambdef(nameA)), B1),
     Try(B1, <<>>, <<>>, <<>>, <<Lit("Pass"), Compound(Classdef(<<"C">>, B1))>>)}

\* format_statement: try statements, section by section
Sections == {<<>>, B1, <<Lit("Pass"), Compound(If(<<CondBlock(nameA, B1)>>, NoneOpt))>>}
ExceptLists ==
    {<<>>, <<Except(nameA, NoneOpt, B1)>>, <<Except(nameA, Some(<<"e">>), B2), Except(nameB, NoneOpt, B1)>>}
TryStmts ==
    {Try(t, x, l, e, f) : t \in {B1, B2}, x \in ExceptLists, l \in Sections, e \in Sections, f \in Sections}

Statements ==
    SupportedSimple \cup UnimplementedSimple \cup UnsupportedInside
        \cup {Compound(s) : s \in SupportedCompound \cup UnsupportedCompound \cup TryStmts}

\* format_module: top-level statement sequences
ModuleStmts ==
    {Lit("Pass"), ExprList("Return", <<IntLit(1), IntLit(2)>>), Assignment(<<nameA>>, <<<<one>>>>),
     AugmentedAssignment(<<nameA>>, "Add", <<one>>), ExprList("Expressions", <<Lambdef(nameA)>>),
     Compound(PlainDef), Compound(Decorated), Compound(FullTry), Compound(Nested), Compound(DefInDef),
     Compound(Classdef(<<"C">>, B1)),
     Compound(If(<<CondBlock(nameA, <<Lit("Pass"), Compound(Classdef(<<"C">>, B1))>>)>>, NoneOpt))}
Modules == SeqsUpTo(ModuleStmts, MaxStmts)

\* format_decorators
DecoratorSet ==
    {Decorator(<<<<"d">>>>, NoneOpt),
     Decorator(<<<<"d">>>>, Some(Arglist(<<>>, <<>>))),
     Decorator(<<<<"m">>, <<"d">>>>, Some(Arglist(<<Normal(one)>>, <<KwNormal(<<"k">>, nameA)>>)))}
DecoratorLists == SeqsUpTo(DecoratorSet, MaxDecorators)

----------------------------------------------------------------------------
(* The calls *)

Init ==
    /\ pc = "idle"
    /\ fn = "none"
    /\ arg = <<>>
    /\ indent = 0
    /\ out = <<>>

\* A call either returns its String or unwinds with a panic and returns nothing
PcAfter(r) == IF r = Fault THEN "unimplemented" ELSE IF r = AssertFailed THEN "assert_failed" ELSE "done"

OutAfter(r) == IF IsPanic(r) THEN <<>> ELSE r

CommaJoin ==
    \E i \in JoinInputs :
        /\ pc = "idle"
        /\ fn' = "comma_join"
        /\ arg' = i
        /\ indent' = 0
        /\ pc' = PcAfter(comma_join(i))
        /\ out' = OutAfter(comma_join(i))

FormatImport ==
    \E imp \in Imports :
        /\ pc = "idle"
        /\ fn' = "format_import"
        /\ arg' = imp
        /\ indent' = 0
        /\ pc' = PcAfter(format_import(imp))
        /\ out' = OutAfter(format_import(imp))

FormatTypedParams ==
    \E param \in ParamLists :
        /\ pc = "idle"
        /\ fn' = "format_typed_params"
        /\ arg' = param
        /\ indent' = 0
        /\ pc' = PcAfter(format_typed_params(param))
        /\ out' = OutAfter(format_typed_params(param))

FormatExpr ==
    \E e \in Exprs0 :
        /\ pc = "idle"
        /\ fn' = "format_expr"
        /\ arg' = e
        /\ indent' = 0
        /\ pc' = PcAfter(format_expr(e))
        /\ out' = OutAfter(format_expr(e))

FormatStatement ==
    \E d \in 0..MaxDepth : \E stmt \in Statements :
        /\ pc = "idle"
        /\ fn' = "format_statement"
        /\ arg' = stmt
        /\ indent' = 4 * d
        /\ pc' = PcAfter(format_statement(4 * d, stmt))
        /\ out' = OutAfter(format_statement(4 * d, stmt))

FormatModule ==
    \E stmts \in Modules :
        /\ pc = "idle"
        /\ fn' = "format_module"
        /\ arg' = stmts
        /\ indent' = 0
        /\ pc' = PcAfter(format_module(stmts))
        /\ out' = OutAfter(format_module(stmts))

FormatDecorators ==
    \E d \in 0..MaxDepth : \E decorators \in DecoratorLists :
        /\ pc = "idle"
        /\ fn' = "format_decorators"
        /\ arg' = decorators
        /\ indent' = 4 * d
        /\ pc' = PcAfter(format_decorators(4 * d, decorators))
        /\ out' = OutAfter(format_decorators(4 * d, decorators))

Next ==
    \/ CommaJoin
    \/ FormatImport
    \/ FormatTypedParams
    \/ FormatExpr
    \/ FormatStatement
    \/ FormatModule
    \/ FormatDecorators

Spec == Init /\ [][Next]_vars

TypeOK == pc \in {"idle", "done", "unimplemented", "assert_failed"}

----------------------------------------------------------------------------
(* Properties *)

Returned(f) == fn = f /\ pc = "done"

\* item1 sep item2 sep ... itemN, built from the last item backwards
RECURSIVE SeparatedBy(_, _)
SeparatedBy(sep, items) ==
    IF items = <<>> THEN <<>>
    ELSE IF Len(items) = 1 THEN items[1]
    ELSE items[1] \o sep \o SeparatedBy(sep, Tail(items))

CommaSpace == <<",", " ">>

StartsWith(t, prefix) == Len(t) >= Len(prefix) /\ SubSeq(t, 1, Len(prefix)) = prefix
EndsWith(t, suffix) == Len(t) >= Len(suffix) /\ SubSeq(t, Len(t) - Len(suffix) + 1, Len(t)) = suffix

\* C1: both import forms render N >= 2 entries with exactly one ", " between
\* consecutive entries and nothing before the first or after the last; a single
\* entry is rendered alone (from ..pkg import x).
C1_ImportEntriesCommaSeparated ==
    Returned("format_import") =>
        IF arg.k = "ImportFrom"
        THEN out = <<"f", "r", "o", "m", " ">> \o [i \in 1..arg.leading_dots |-> "."]
                    \o SeparatedBy(<<".">>, arg.path) \o <<" ", "i", "m", "p", "o", "r", "t", " ">>
                    \o SeparatedBy(CommaSpace, [i \in DOMAIN arg.names |-> ImportFromEntry(arg.names[i])])
        ELSE out = <<"i", "m", "p", "o", "r", "t", " ">>
                    \o SeparatedBy(CommaSpace, [i \in DOMAIN arg.names |-> ImportEntry(arg.names[i])])

\* The text of the four parameter groups, each without any separator after it
ParamGroups(param) ==
    <<SeparatedBy(CommaSpace, [i \in DOMAIN param.positional_args |-> format_typed_param(param.positional_args[i])]),
      IF param.star_args.k = "Anonymous" THEN <<"*">> ELSE StarArgsText(param.star_args),
      SeparatedBy(CommaSpace, [i \in DOMAIN param.keyword_args |-> format_typed_param(param.keyword_args[i])]),
      IF param.star_kwargs = NoneOpt THEN <<>>
      ELSE <<"*", "*">> \o param.star_kwargs[1].name
              \o (IF param.star_kwargs[1].typed # NoneOpt
                  THEN <<":">> \o format_expr(param.star_kwargs[1].typed[1]) ELSE <<>>)>>

NonEmpty(t) == t # <<>>

\* C2: format_typed_params renders positional params, star marker, keyword-only
\* params and **kwargs in that order with ", " exactly between consecutive
\* non-empty groups: no trailing ", ", no two groups run together.
C2_ParamGroupsSeparated ==
    Returned("format_typed_params") =>
        /\ out = SeparatedBy(CommaSpace, SelectSeq(ParamGroups(arg), NonEmpty))
        /\ ~EndsWith(out, CommaSpace)

\* C10: comma_join gives "" for no item, the item for one item, and for N >= 2
\* items the items in order with exactly one ", " between consecutive items and
\* none before the first or after the last; Return([Int 1, Int 2]) at indent 0
\* is "return 1, 2" and a line break.
C10_CommaJoin ==
    /\ Returned("comma_join") =>
          /\ out = SeparatedBy(CommaSpace, arg)
          /\ (Len(arg) = 0 => out = <<>>)
          /\ (Len(arg) = 1 => out = arg[1])
          /\ (Len(arg) >= 2 => ~StartsWith(out, CommaSpace) /\ ~EndsWith(out, CommaSpace))
    /\ (fn = "format_statement" /\ indent = 0 /\ arg = ExprList("Return", <<IntLit(1), IntLit(2)>>)) =>
          pc = "done" /\ out = <<"r", "e", "t", "u", "r", "n", " ", "1", ",", " ", "2", "\n">>

C10_Witness == Returned("comma_join") /\ Len(arg) >= 2 /\ out = <<"a", ",", " ", "b", "c">>

\* Atom-class: literal, name, container literal, or one of the four comprehension kinds
AtomClassKinds ==
    {"Ellipsis", "None", "True", "False", "Int", "Float", "Complex", "String", "Bytes"}
        \cup {"Name"}
        \cup {"DictLiteral", "SetLiteral", "ListLiteral", "TupleLiteral"}
        \cup {"DictComp", "SetComp", "ListComp", "Generator"}

Parens(t) == <<"(">> \o t \o <<")">>

\* The rendering the parenthesization policy prescribes for a tree of binary
\* operators and ternaries, down to the operands of any other shape
RECURSIVE PolicyText(_)
PolicyOperand(e) == IF e.k \in AtomClassKinds THEN PolicyText(e) ELSE Parens(PolicyText(e))

PolicyText(e) ==
    CASE e.k = "Bop" -> PolicyOperand(e.e1) \o BopSym(e.op) \o PolicyOperand(e.e2)
      [] e.k = "Ternary" ->
            Parens(PolicyText(e.e1)) \o <<" ", "i", "f", " ">> \o Parens(PolicyText(e.e2))
                \o <<" ", "e", "l", "s", "e", " ">> \o Parens(PolicyText(e.e3))
      [] OTHER -> format_expr(e)

\* C3: each operand of a Bop is wrapped in one pair of parentheses iff it is not
\* atom-class, at every nesting depth; all three parts of a Ternary are wrapped
\* whatever their shape; Bop(Add, a, Bop(Mult, b, c)) renders as a+(b*c).
C3_OperandsParenthesized ==
    /\ (Returned("format_expr") /\ arg.k \in {"Bop", "Ternary"}) => out = PolicyText(arg)
    /\ (fn = "format_expr" /\ arg = Bop("Add", nameA, Bop("Mult", nameB, nameC))) =>
          pc = "done" /\ out = <<"a", "+", "(", "b", "*", "c", ")">>

C3_Witness ==
    /\ Returned("format_expr")
    /\ arg = Bop("Mult", Container("ListLiteral", <<Unique(nameA)>>), Bop("Add", nameB, Bop("Mult", nameA, nameC)))
    /\ out = <<"[", "a", "]", "*", "(", "b", "+", "(", "a", "*", "c", ")", ")">>

\* C4: the operand of a Uop follows the atom-class policy of binary operands: a
\* non-atom operand is parenthesized after the operator symbol, so
\* Uop(Minus, Bop(Add, a, b)) is never the symbol followed by a+b.
C4_UnaryOperandParenthesized ==
    /\ (Returned("format_expr") /\ arg.k = "Uop") =>
          out = UopSym(arg.op) \o (IF arg.e.k \in AtomClassKinds
                                   THEN format_expr(arg.e) ELSE Parens(format_expr(arg.e)))
    /\ (Returned("format_expr") /\ arg = Uop("Minus", Bop("Add", nameA, nameB))) =>
          out # <<"-", "a", "+", "b">>

Range(f) == {f[i] : i \in DOMAIN f}

SimpleKinds ==
    {"Pass", "Del", "Break", "Continue", "Return", "RaiseExcFrom", "RaiseExc", "Raise", "Global",
     "Nonlocal", "Assert", "Import", "Expressions", "Assignment", "TypedAssignment", "AugmentedAssignment"}

\* The expressions a simple statement embeds directly
EmbeddedExprs(stmt) ==
    CASE stmt.k \in {"Return", "Expressions"} -> Range(stmt.exprs)
      [] stmt.k = "RaiseExcFrom" -> {stmt.exc, stmt.from_exc}
      [] stmt.k = "RaiseExc" -> {stmt.exc}
      [] stmt.k = "Assert" -> {stmt.expr} \cup Range(stmt.msg)
      [] stmt.k = "Assignment" -> Range(stmt.lhs) \cup UNION {Range(stmt.rhs[i]) : i \in DOMAIN stmt.rhs}
      [] stmt.k = "TypedAssignment" -> Range(stmt.lhs) \cup {stmt.typed} \cup Range(stmt.rhs)
      [] stmt.k = "AugmentedAssignment" -> Range(stmt.lhs) \cup Range(stmt.rhs)
      [] OTHER -> {}

\* t is exactly one line at indent n: n spaces, a non-space character, no
\* line break before the final one
OneLineAt(t, n) ==
    /\ Len(t) >= n + 2
    /\ \A i \in 1..n : t[i] = " "
    /\ t[n + 1] \notin {" ", "\n"}
    /\ t[Len(t)] = "\n"
    /\ \A i \in 1..(Len(t) - 1) : t[i] # "\n"

\* C6: for every simple-statement variant, TypedAssignment and
\* AugmentedAssignment included, whose embedded expressions are supported,
\* format_statement returns text, and the text is exactly one line at the indent.
C6_SimpleStatementsRender ==
    (/\ fn = "format_statement"
     /\ arg.k \in SimpleKinds
     /\ \A e \in EmbeddedExprs(arg) : ~IsPanic(format_expr(e)))
        => pc = "done" /\ OneLineAt(out, indent)

\* The expression variants format_expr has no arm for
NoArmKinds == {"Complex", "Float", "Bytes", "Yield", "YieldFrom", "Lambdef"}

ItemExprsOf(si) == IF si.k = "Unique" /\ "e1" \in DOMAIN si THEN {si.e1, si.e2} ELSE {si.e}

ChunkExprs(comp) == IF comp.k = "If" THEN {comp.cond} ELSE Range(comp.item) \cup {comp.iterator}

SubscriptExprs(sub) ==
    CASE sub.k = "Simple" -> {sub.e}
      [] sub.k = "Double" -> Range(sub.e1) \cup Range(sub.e2)
      [] sub.k = "Triple" -> Range(sub.e1) \cup Range(sub.e2) \cup Range(sub.e3)

ArgExprs(args) ==
    {args.positional_args[i].e : i \in DOMAIN args.positional_args}
        \cup {args.keyword_args[i].e : i \in DOMAIN args.keyword_args}

\* The direct sub-expressions of an expression
SubExprs(e) ==
    CASE e.k \in {"DictLiteral", "SetLiteral", "ListLiteral", "TupleLiteral"} ->
            UNION {ItemExprsOf(e.items[i]) : i \in DOMAIN e.items}
      [] e.k \in {"DictComp", "SetComp", "ListComp", "Generator"} ->
            ItemExprsOf(e.item) \cup UNION {ChunkExprs(e.comp[i]) : i \in DOMAIN e.comp}
      [] e.k = "Call" -> {e.e} \cup ArgExprs(e.args)
      [] e.k = "Subscript" -> {e.e} \cup UNION {SubscriptExprs(e.sub[i]) : i \in DOMAIN e.sub}
      [] e.k \in {"Attribute", "Uop", "Star"} -> {e.e}
      [] e.k = "Bop" -> {e.e1, e.e2}
      [] e.k = "Ternary" -> {e.e1, e.e2, e.e3}
      [] OTHER -> {}

RECURSIVE ExprHasNoArm(_)
ExprHasNoArm(e) == e.k \in NoArmKinds \/ \E x \in SubExprs(e) : ExprHasNoArm(x)

ParamExprs(p) == Range(p.typed) \cup Range(p.value)

TypedParamsExprs(param) ==
    UNION {ParamExprs(param.positional_args[i]) : i \in DOMAIN param.positional_args}
        \cup (IF param.star_args.k = "Named" THEN Range(param.star_args.typed) ELSE {})
        \cup UNION {ParamExprs(param.keyword_args[i]) : i \in DOMAIN param.keyword_args}
        \cup (IF param.star_kwargs = NoneOpt THEN {} ELSE Range(param.star_kwargs[1].typed))

DecoratorExprs(d) == IF d.args = NoneOpt THEN {} ELSE ArgExprs(d.args[1])

\* The expressions a compound statement embeds directly
CompoundExprs(cs) ==
    CASE cs.k = "If" -> {cs.cond_blocks[i].cond : i \in DOMAIN cs.cond_blocks}
      [] cs.k = "For" -> Range(cs.item) \cup Range(cs.iterator)
      [] cs.k = "While" -> {cs.cond}
      [] cs.k = "Try" -> {cs.except_clauses[i].guard : i \in DOMAIN cs.except_clauses}
      [] cs.k = "With" ->
            {cs.contexts[i].ctx : i \in DOMAIN cs.contexts}
                \cup UNION {Range(cs.contexts[i].as_what) : i \in DOMAIN cs.contexts}
      [] cs.k = "Funcdef" ->
            UNION {DecoratorExprs(cs.funcdef.decorators[i]) : i \in DOMAIN cs.funcdef.decorators}
                \cup TypedParamsExprs(cs.funcdef.parameters) \cup Range(cs.funcdef.return_type)
      [] OTHER -> {}

\* The statements directly inside the blocks of a compound statement
CompoundStmts(cs) ==
    CASE cs.k = "If" ->
            UNION {Range(cs.cond_blocks[i].block) : i \in DOMAIN cs.cond_blocks}
                \cup UNION {Range(cs.else_block[i]) : i \in DOMAIN cs.else_block}
      [] cs.k = "For" -> Range(cs.for_block) \cup UNION {Range(cs.else_block[i]) : i \in DOMAIN cs.else_block}
      [] cs.k = "While" -> Range(cs.block) \cup UNION {Range(cs.else_block[i]) : i \in DOMAIN cs.else_block}
      [] cs.k = "Try" ->
            Range(cs.try_block) \cup UNION {Range(cs.except_clauses[i].block) : i \in DOMAIN cs.except_clauses}
                \cup Range(cs.last_except) \cup Range(cs.else_block) \cup Range(cs.finally_block)
      [] cs.k = "With" -> Range(cs.block)
      [] cs.k = "Funcdef" -> Range(cs.funcdef.code)
      [] OTHER -> {}

\* A Classdef, or an expression variant without a rendering arm, anywhere in the statement
RECURSIVE StmtHasNoArm(_)
StmtHasNoArm(stmt) ==
    IF stmt.k = "Compound"
    THEN \/ stmt.stmt.k = "Classdef"
         \/ \E e \in CompoundExprs(stmt.stmt) : ExprHasNoArm(e)
         \/ \E x \in CompoundStmts(stmt.stmt) : StmtHasNoArm(x)
    ELSE \E e \in EmbeddedExprs(stmt) : ExprHasNoArm(e)

TreeHasNoArm ==
    CASE fn = "format_expr" -> ExprHasNoArm(arg)
      [] fn = "format_statement" -> StmtHasNoArm(arg)
      [] fn = "format_module" -> \E i \in DOMAIN arg : StmtHasNoArm(arg[i])
      [] OTHER -> FALSE

\* C7: a Classdef or an expression variant without a rendering arm, at any depth
\* and after any number of rendered siblings, ends rendering in the
\* unsupported-construct fault: no text, not even that of the earlier siblings,
\* is returned.
C7_UnsupportedAborts ==
    TreeHasNoArm => pc = "unimplemented" /\ out = <<>>

C7_Witness ==
    /\ fn = "format_module"
    /\ Len(arg) = 2
    /\ arg[1] = Lit("Pass")
    /\ arg[2] = Compound(If(<<CondBlock(nameA, <<Lit("Pass"), Compound(Classdef(<<"C">>, B1))>>)>>, NoneOpt))
    /\ pc = "unimplemented"
    /\ out = <<>>

ContainerKinds == {"DictLiteral", "SetLiteral", "ListLiteral", "TupleLiteral"}

\* C8: format_expr is injective on the atom-class trees (a text that re-parses
\* to the tree it came from comes from one tree only), and the text of a
\* container literal determines its kind and its number of items.
C8_AtomRenderingInjective ==
    (Returned("format_expr") /\ arg \in AtomExprs) =>
        \A e \in AtomExprs :
            format_expr(e) = out =>
                /\ e = arg
                /\ (arg.k \in ContainerKinds => e.k = arg.k /\ Len(e.items) = Len(arg.items))

\* Length of the first line of t, line break included (0 when t has no line break)
FirstLineLen(t) ==
    IF \E i \in DOMAIN t : t[i] = "\n"
    THEN CHOOSE i \in DOMAIN t : t[i] = "\n" /\ \A j \in 1..(i - 1) : t[j] # "\n"
    ELSE 0

Drop(t, n) == SubSeq(t, n + 1, Len(t))

Mismatch == <<"mismatch">>

\* What is left of rest after one section: nothing is taken for an absent
\* section; a present one takes one header line at indent n, then the block
\* rendered at indent n + 4
StripSection(rest, n, block, present) ==
    IF rest = Mismatch \/ ~present THEN rest
    ELSE LET h == FirstLineLen(rest)
             body == format_block(n + 4, block)
         IN  IF h > 0 /\ OneLineAt(SubSeq(rest, 1, h), n) /\ StartsWith(Drop(rest, h), body)
             THEN Drop(rest, h + Len(body))
             ELSE Mismatch

RECURSIVE StripClauses(_, _, _)
StripClauses(rest, n, clauses) ==
    IF clauses = <<>> THEN rest
    ELSE StripClauses(StripSection(rest, n, Head(clauses).block, TRUE), n, Tail(clauses))

\* C9: in the rendering of a Try, each of the bare-except, else and finally
\* sections contributes nothing when its sequence is empty and exactly one header
\* line at the try's indent plus its block at indent + 4 when it is not; the
\* order is try block, typed except clauses as declared, bare except, else,
\* finally, and nothing else is emitted.
C9_TrySections ==
    (Returned("format_statement") /\ arg.k = "Compound" /\ arg.stmt.k = "Try") =>
        LET t == arg.stmt
            afterTry == StripSection(out, indent, t.try_block, TRUE)
            afterClauses == StripClauses(afterTry, indent, t.except_clauses)
            afterLast == StripSection(afterClauses, indent, t.last_except, t.last_except # <<>>)
            afterElse == StripSection(afterLast, indent, t.else_block, t.else_block # <<>>)
            afterFinally == StripSection(afterElse, indent, t.finally_block, t.finally_block # <<>>)
        IN  afterFinally = <<>>

C9_Witness ==
    /\ Returned("format_statement")
    /\ indent = 4
    /\ arg = Compound(Try(B1, <<Except(nameA, NoneOpt, B1)>>, B1, <<>>, B1))
    /\ Len(out) = 106

\* The lines of t, without their line breaks
RECURSIVE Lines(_)
Lines(t) ==
    IF t = <<>> THEN <<>>
    ELSE IF FirstLineLen(t) = 0 THEN <<t>>
    ELSE <<SubSeq(t, 1, FirstLineLen(t) - 1)>> \o Lines(Drop(t, FirstLineLen(t)))

\* A line of a block at depth d: 4 * d spaces, then a non-space character
IndentedAt(line, d) ==
    /\ Len(line) > 4 * d
    /\ \A i \in 1..(4 * d) : line[i] = " "
    /\ line[4 * d + 1] # " "

\* A line made of n spaces and nothing else; in a shape it is written -(n + 1)
SpacesOnly(n) == 0 - (n + 1)

\* The lines a statement at depth d is made of, in order: d for a line of the
\* block at depth d, SpacesOnly(n) for a line of n spaces without content
RECURSIVE StmtShape(_, _)
BlockShape(stmts, d) == Flatten([i \in DOMAIN stmts |-> StmtShape(stmts[i], d)])

OptBlockShape(else_block, d) ==
    IF else_block = NoneOpt THEN <<>> ELSE <<d>> \o BlockShape(else_block[1], d + 1)

SectionShape(block, d) == IF block = <<>> THEN <<>> ELSE <<d>> \o BlockShape(block, d + 1)

CompoundShape(cs, d) ==
    CASE cs.k = "If" ->
            Flatten([i \in DOMAIN cs.cond_blocks |-> <<d>> \o BlockShape(cs.cond_blocks[i].block, d + 1)])
                \o OptBlockShape(cs.else_block, d)
      [] cs.k = "For" -> <<d>> \o BlockShape(cs.for_block, d + 1) \o OptBlockShape(cs.else_block, d)
      [] cs.k = "While" -> <<d>> \o BlockShape(cs.block, d + 1) \o OptBlockShape(cs.else_block, d)
      [] cs.k = "Try" ->
            <<d>> \o BlockShape(cs.try_block, d + 1)
                \o Flatten([i \in DOMAIN cs.except_clauses |->
                                <<d>> \o BlockShape(cs.except_clauses[i].block, d + 1)])
                \o SectionShape(cs.last_except, d) \o SectionShape(cs.else_block, d)
                \o SectionShape(cs.finally_block, d)
      [] cs.k = "With" -> <<d>> \o BlockShape(cs.block, d + 1)
      [] cs.k = "Funcdef" ->
            <<SpacesOnly(4 * d)>> \o [i \in DOMAIN cs.funcdef.decorators |-> d] \o <<d>>
                \o BlockShape(cs.funcdef.code, d + 1) \o <<SpacesOnly(0)>>

StmtShape(stmt, d) == IF stmt.k = "Compound" THEN CompoundShape(stmt.stmt, d) ELSE <<d>>

IsDepth(x) == x >= 0

\* The shape of the text the call returned
OutShape ==
    IF fn = "format_module" THEN BlockShape(arg, 0) ELSE StmtShape(arg, indent \div 4)

MatchesShape(line, x) ==
    IF x >= 0 THEN IndentedAt(line, x)
    ELSE Len(line) = 0 - x - 1 /\ \A i \in DOMAIN line : line[i] = " "

\* C5 as stated: every line of the output belongs to a block at some depth d and
\* is 4 * d spaces followed by a non-space character, the lines of a function
\* definition included.
C5_EveryLineIndented ==
    (pc = "done" /\ fn \in {"format_statement", "format_module"}) =>
        LET shape == SelectSeq(OutShape, IsDepth)
        IN  /\ Len(Lines(out)) = Len(shape)
            /\ \A i \in DOMAIN shape : IndentedAt(Lines(out)[i], shape[i])

\* C5 amended: every line that has a non-space character is 4 * d spaces
\* followed by it, d the depth of its block; the only other lines are the two a
\* function definition at depth d adds: a line of 4 * d spaces before its first
\* line and an empty line after its body.
C5_ContentLinesIndented ==
    (pc = "done" /\ fn \in {"format_statement", "format_module"}) =>
        /\ Len(Lines(out)) = Len(OutShape)
        /\ \A i \in DOMAIN OutShape : MatchesShape(Lines(out)[i], OutShape[i])

C5_Witness ==
    /\ fn = "format_module"
    /\ pc = "done"
    /\ arg = <<Compound(Nested), Compound(DefInDef)>>
    /\ Lines(out)[3] = <<" ", " ", " ", " ", " ", " ", " ", " ", "p", "a", "s", "s">>
    /\ Lines(out)[4] = <<" ", " ", " ", " ", " ", " ", " ", " ">>
    /\ Lines(out)[5] = <<" ", " ", " ", " ", " ", " ", " ", " ", "@", "d">>

\* The first line of rest is the header: n spaces, the keyword, a colon
HeaderIs(rest, n, keyword) == StartsWith(rest, push_indent(n, <<>>) \o keyword \o <<":", "\n">>)

\* C11: the header line of a non-empty finally section is exactly finally: at
\* the try's indent, as the bare-except header is except: and the else header
\* is else:.
C11_FinallyHeader ==
    (Returned("format_statement") /\ arg.k = "Compound" /\ arg.stmt.k = "Try") =>
        LET t == arg.stmt
            afterTry == StripSection(out, indent, t.try_block, TRUE)
            afterClauses == StripClauses(afterTry, indent, t.except_clauses)
            afterLast == StripSection(afterClauses, indent, t.last_except, t.last_except # <<>>)
            afterElse == StripSection(afterLast, indent, t.else_block, t.else_block # <<>>)
        IN  /\ t.last_except # <<>> => HeaderIs(afterClauses, indent, <<"e", "x", "c", "e", "p", "t">>)
            /\ t.else_block # <<>> => HeaderIs(afterLast, indent, <<"e", "l", "s", "e">>)
            /\ t.finally_block # <<>> => HeaderIs(afterElse, indent, <<"f", "i", "n", "a", "l", "l", "y">>)

\* The line of one decorator: @ and the dotted name, then the argument list in
\* parentheses when the decorator carries call arguments
DecoratorLineClaimed(n, d) ==
    push_indent(n, <<>>) \o <<"@">> \o SeparatedBy(<<".">>, d.name)
        \o (IF d.args # NoneOpt THEN Parens(format_args(d.args[1])) ELSE <<>>)
        \o <<"\n">>

\* C12: format_decorators emits one line @ + dotted name per decorator, with the
\* argument list in parentheses right after the name when args is Some (as
\* format_expr renders a Call on that name) and no parentheses when args is
\* None; Some(empty arglist) and None render differently.
C12_DecoratorArgsParenthesized ==
    Returned("format_decorators") =>
        /\ out = Flatten([i \in DOMAIN arg |-> DecoratorLineClaimed(indent, arg[i])])
        /\ \A i \in DOMAIN arg :
              (Len(arg[i].name) = 1 /\ arg[i].args # NoneOpt) =>
                  DecoratorLineClaimed(0, arg[i])
                      = <<"@">> \o format_expr(Call(Name(arg[i].name[1]), arg[i].args[1])) \o <<"\n">>
        /\ (Len(arg) = 1 /\ arg[1].args = Some(Arglist(<<>>, <<>>))) =>
              out # format_decorators(indent, <<Decorator(arg[1].name, NoneOpt)>>)

\* C13: an ImportFrom with an empty names list is a wildcard import, rendered
\* from + dots + dotted path + import *; the rendering of an ImportFrom never
\* ends with the bare text " import ".
C13_WildcardImport ==
    (Returned("format_import") /\ arg.k = "ImportFrom") =>
        /\ ~EndsWith(out, <<" ", "i", "m", "p", "o", "r", "t", " ">>)
        /\ arg.names = <<>> =>
              out = <<"f", "r", "o", "m", " ">> \o [i \in 1..arg.leading_dots |-> "."]
                      \o SeparatedBy(<<".">>, arg.path)
                      \o <<" ", "i", "m", "p", "o", "r", "t", " ", "*">>

\* The parameter list with its star_args replaced
WithStarArgs(param, star) ==
    TypedArgsList(param.positional_args, star, param.keyword_args, param.star_kwargs)

\* The text a named star-args parameter has to be rendered as: *n or *n:type
NamedStarClaimed(star) ==
    <<"*">> \o star.name \o (IF star.typed # NoneOpt THEN <<":">> \o format_expr(star.typed[1]) ELSE <<>>)

\* C14: a named star-args parameter is rendered with its star marker, as *n or
\* *n:type, right after the positional group; the list never renders like the
\* list that has n as an ordinary positional or keyword-only parameter instead,
\* and the cases No, Anonymous and Named of star_args give pairwise different
\* text.
C14_NamedStarArgsMarked ==
    (Returned("format_typed_params") /\ arg.star_args.k = "Named") =>
        LET star == arg.star_args
            plain == TypedParam(star.name, star.typed, NoneOpt)
        IN  /\ StartsWith(out, format_typed_params(TypedArgsList(arg.positional_args, Lit("No"), <<>>, NoneOpt))
                                   \o NamedStarClaimed(star))
            /\ out # format_typed_params(
                        TypedArgsList(Append(arg.positional_args, plain), Lit("No"), arg.keyword_args, arg.star_kwargs))
            /\ out # format_typed_params(
                        TypedArgsList(arg.positional_args, Lit("No"), <<plain>> \o arg.keyword_args, arg.star_kwargs))
            /\ out # format_typed_params(WithStarArgs(arg, Lit("No")))
            /\ out # format_typed_params(WithStarArgs(arg, Lit("Anonymous")))
            /\ format_typed_params(WithStarArgs(arg, Lit("No")))
                    # format_typed_params(WithStarArgs(arg, Lit("Anonymous")))

====
